---- MODULE Spec2Model ----
(***************************************************************************)
(* Model of the alien language installer (src/src/main.rs,                 *)
(* src/src/manifest.rs, src/src/path_structure.rs).                        *)
(*                                                                         *)
(* A path is the sequence of its components (std::path compares, prefixes  *)
(* and strips component-wise).  A file's content is an opaque token.       *)
(* An archive is the sequence of records the zip reader yields; a record   *)
(* has a name, a kind (file, dir, symlink), whether enclosed_name() finds  *)
(* the name safe, whether its bytes can be read to the end, and the bytes. *)
(***************************************************************************)
EXTENDS Naturals, Sequences, FiniteSets, TLC

VARIABLES
    archive,        \* path_structure::LANGUAGE_ZIP_DATA, decoded: the embedded records
    white_list,     \* WHITE_LIST.lines(): set of stripped paths
    fs,             \* the tree under alien_isolation_dir(): path -> node
    backup_zip,     \* the file backup_dir()/language.zip: NoFile or [data, complete]
    pc,             \* position of main
    manifest,       \* main's / english's `manifest`
    needs_remove,   \* english's `needs_remove`
    filtered,       \* the filtered view: sequence of [item |-> index, striped |-> path]
    tasks,          \* the futures of the running join_all batch
    order,          \* the order in which the futures of the batch completed
    data_buffer,    \* backup_alien_isolation_data's in-memory archive
    copied,         \* chunks of data_buffer that tokio::io::copy has written
    result,         \* what main returned last
    log,            \* history: the runs so far, <<mode, status>> each
    orig,           \* history: the tree before the first run
    fs0,            \* history: the tree when the current run started
    zip0,           \* history: backup_zip when the current run started
    fsb,            \* history: the tree at the start of the run that wrote backup_zip
    faults          \* history: the failures the environment has caused so far

vars == <<archive, white_list, fs, backup_zip, pc, manifest, needs_remove, filtered,
          tasks, order, data_buffer, copied, result, log, orig, fs0, zip0, fsb, faults>>

\* ------------------------------------------------------------------ bounds
MaxRecords == 2      \* records of an archive drawn for the manifest functions
MaxRuns == 3         \* invocations of the program in one behaviour
MaxCrashes == 1      \* runs cut short in one behaviour
MaxFaults == 1       \* failures caused by the environment in one behaviour

\* ------------------------------------------------------------------- paths
hans_dir == <<"language", "zh_cn_hans">>

\* str::to_lowercase on one component
LowerC(c) ==
    CASE c = "Language" -> "language"
      [] c = "ZH_CN_HANS" -> "zh_cn_hans"
      [] c = "UI" -> "ui"
      [] c = "Menu.bin" -> "menu.bin"
      [] OTHER -> c

to_lowercase(p) == [i \in 1..Len(p) |-> LowerC(p[i])]

\* Path::starts_with: whole components only
starts_with(p, base) ==
    /\ Len(base) <= Len(p)
    /\ SubSeq(p, 1, Len(base)) = base

\* Path::strip_prefix, for a path that starts with base
strip_prefix(p, base) == SubSeq(p, Len(base) + 1, Len(p))

\* Path::parent of a non-empty path
parent(p) == SubSeq(p, 1, Len(p) - 1)

\* ---------------------------------------------------------------- manifest
\* ManifestItem::new: Option<ManifestItem> as a sequence of length 0 or 1
ManifestItem_new(file) ==
    IF ~file.enclosed THEN <<>>
    ELSE IF ~file.readable THEN <<>>
    ELSE << [path |-> file.name,
             lowercase_name |-> to_lowercase(file.name),
             bytes |-> file.bytes,
             is_file |-> (file.kind = "file"),
             is_dir |-> (file.kind = "dir")] >>

RECURSIVE Flatten(_)
Flatten(ss) == IF ss = <<>> THEN <<>> ELSE Head(ss) \o Flatten(Tail(ss))

\* Manifest::new: every record through ManifestItem::new, the Nones flattened away
Manifest_new(a) == Flatten([i \in 1..Len(a) |-> ManifestItem_new(a[i])])

\* faulty variant of HansKeep: the components().count() > 0 stage is missing
HansKeep_NoCount(item) == starts_with(item.lowercase_name, hans_dir)

\* filter_hans_dir's iterator chain on one item: starts_with, strip_prefix,
\* components().count() > 0
HansKeep(item) ==
    /\ starts_with(item.lowercase_name, hans_dir)
    /\ Len(strip_prefix(item.lowercase_name, hans_dir)) > 0

\* the indices of the items the chain keeps, in manifest order
RECURSIVE HansIdx(_, _)
HansIdx(m, i) ==
    IF i > Len(m) THEN <<>>
    ELSE (IF HansKeep(m[i]) THEN <<i>> ELSE <<>>) \o HansIdx(m, i + 1)

filter_hans_dir(m) ==
    LET idx == HansIdx(m, 1)
    IN  [k \in 1..Len(idx) |->
            [item |-> idx[k],
             striped |-> strip_prefix(m[idx[k]].lowercase_name, hans_dir)]]

\* ------------------------------------------------------------- file system
\* A node is "absent", "dir", or the content of a regular file ("empty" after a
\* create or truncate).  The tree is kept well formed: a node that is not
\* absent has a directory as its parent.
FsPaths ==
    { <<>>, <<"ui">>, <<"ui", "menu.bin">>, <<"opt">>, <<"opt", "x.bin">>,
      <<"opt.bin">>, <<"other.bin">> }

Node(f, p) == IF p \in DOMAIN f THEN f[p] ELSE "absent"
exists(f, p) == Node(f, p) # "absent"
is_file(f, p) == Node(f, p) \notin {"absent", "dir"}
is_dir(f, p) == Node(f, p) = "dir"

\* a component above p is a regular file: stat fails with ENOTDIR, not ENOENT
RECURSIVE below_file(_, _)
below_file(f, p) ==
    /\ p # <<>>
    /\ (is_file(f, parent(p)) \/ below_file(f, parent(p)))

\* tokio::fs::metadata fails with ErrorKind::NotFound
metadata_not_found(f, p) == ~exists(f, p) /\ ~below_file(f, p)

\* faulty variant of create_dir_all: what is in the way is replaced by a directory
create_dir_all_Replace(f, p) ==
    IF is_dir(f, p) THEN [ok |-> TRUE, fs |-> f]
    ELSE [ok |-> TRUE, fs |-> [f EXCEPT ![p] = "dir"]]

\* std::fs::create_dir_all: [ok, fs]
RECURSIVE create_dir_all(_, _)
create_dir_all(f, p) ==
    IF is_dir(f, p) THEN [ok |-> TRUE, fs |-> f]
    ELSE IF exists(f, p) THEN [ok |-> FALSE, fs |-> f]
    ELSE LET up == create_dir_all(f, parent(p))
         IN  IF up.ok THEN [ok |-> TRUE, fs |-> [up.fs EXCEPT ![p] = "dir"]]
             ELSE up

\* OpenOptions::new().write(true).create(true).truncate(true).open: [ok, fs]
open_truncate(f, p) ==
    IF is_dir(f, parent(p)) /\ ~is_dir(f, p)
    THEN [ok |-> TRUE, fs |-> [f EXCEPT ![p] = "empty"]]
    ELSE [ok |-> FALSE, fs |-> f]

\* ------------------------------------------------------------------ inputs
Rec(name, kind, bytes) ==
    [name |-> name, kind |-> kind, enclosed |-> TRUE, readable |-> TRUE, bytes |-> bytes]

\* embedded archives of the shape language/<lang-subdir>/<relative-path>
Archive1 ==
    << Rec(<<"language">>, "dir", "empty"),
       Rec(<<"language", "zh_cn_hans">>, "dir", "empty"),
       Rec(<<"Language", "ZH_CN_HANS", "UI">>, "dir", "empty"),
       Rec(<<"Language", "ZH_CN_HANS", "UI", "Menu.bin">>, "file", "zh_menu"),
       Rec(<<"language", "ui.bin">>, "file", "en_ui") >>
Archive2 ==
    << Rec(<<"language", "zh_cn_hans", "opt.bin">>, "file", "zh_optbin"),
       Rec(<<"language", "zh_cn_hans", "opt">>, "dir", "empty"),
       Rec(<<"language", "zh_cn_hans", "ui", "menu.bin">>, "file", "zh_menu") >>
Archive3 ==
    << Rec(<<"language", "zh_cn_hans", "opt">>, "dir", "empty"),
       Rec(<<"language", "zh_cn_hans", "opt", "x.bin">>, "file", "zh_x"),
       Rec(<<"language", "zh_cn_hans", "ui", "menu.bin">>, "file", "zh_menu") >>
Archives == {Archive1, Archive2, Archive3}

WhiteLists == { {}, {<<"opt">>, <<"opt.bin">>, <<"opt", "x.bin">>} }

\* the content a path's file has in an install
OrigBytes(p) ==
    CASE p = <<"ui", "menu.bin">> -> "orig_menu"
      [] p = <<"opt", "x.bin">> -> "orig_x"
      [] p = <<"opt.bin">> -> "orig_optbin"
      [] OTHER -> "orig_other"

WellFormed(f) ==
    /\ f[<<>>] = "dir"
    /\ \A p \in FsPaths \ {<<>>} : exists(f, p) => is_dir(f, parent(p))

Trees ==
    { f \in [FsPaths -> {"absent", "dir", "file"}] :
        /\ WellFormed(f)
        /\ f[<<"other.bin">>] = "file" }

TreeOf(f) == [p \in FsPaths |-> IF f[p] = "file" THEN OrigBytes(p) ELSE f[p]]

NoFile == [present |-> FALSE, data |-> <<>>, complete |-> FALSE]
NoTask == [step |-> "done", tag |-> "ok", path |-> <<>>, is_file |-> FALSE, bytes |-> "empty"]
NoResult == [status |-> "none", kind |-> "none", paths |-> <<>>, counts |-> <<>>]

Init ==
    /\ archive \in Archives
    /\ white_list \in WhiteLists
    /\ \E f \in Trees : fs = TreeOf(f)
    /\ backup_zip = NoFile
    /\ pc = "idle"
    /\ manifest = <<>>
    /\ needs_remove = <<>>
    /\ filtered = <<>>
    /\ tasks = <<>>
    /\ order = <<>>
    /\ data_buffer = <<>>
    /\ copied = 0
    /\ result = NoResult
    /\ log = <<>>
    /\ orig = fs
    /\ fs0 = fs
    /\ zip0 = backup_zip
    /\ fsb = fs
    /\ faults = 0

\* -------------------------------------------------------------------- main
Err(kind, paths, counts) ==
    [status |-> "err", kind |-> kind, paths |-> paths, counts |-> counts]
Ok == [status |-> "ok", kind |-> "none", paths |-> <<>>, counts |-> <<>>]

\* main returns: the process exits with `res`
Return(mode, res) ==
    /\ pc' = "idle"
    /\ result' = res
    /\ log' = Append(log, <<mode, res.status>>)
    /\ tasks' = <<>>
    /\ order' = <<>>

AllDone == \A i \in 1..Len(tasks) : tasks[i].step = "done"

\* faulty variant of FirstErr: the last Err of the batch in input order
FirstErr_Last(ts, i) ==
    IF \E k \in i..Len(ts) : ts[k].tag = "err"
    THEN CHOOSE k \in i..Len(ts) :
            ts[k].tag = "err" /\ \A j \in (k + 1)..Len(ts) : ts[j].tag # "err"
    ELSE 0

\* the first Err of the batch in input order: collect::<Result<Vec<_>>>()
RECURSIVE FirstErr(_, _)
FirstErr(ts, i) ==
    IF i > Len(ts) THEN 0
    ELSE IF ts[i].tag = "err" THEN i
    ELSE FirstErr(ts, i + 1)

\* `zh`: main loads the embedded manifest and filters it
Main_zh ==
    /\ pc = "idle"
    /\ Len(log) < MaxRuns
    /\ manifest' = Manifest_new(archive)
    /\ filtered' = filter_hans_dir(manifest')
    /\ pc' = "check"
    /\ result' = NoResult
    /\ fs0' = fs
    /\ zip0' = backup_zip
    /\ UNCHANGED <<archive, white_list, fs, backup_zip, needs_remove, tasks, order,
                   data_buffer, copied, log, orig, fsb, faults>>

\* faulty variant of NotFoundEntry: the whitelist is not consulted
NotFoundEntry_NoWhiteList(f, wl, striped) ==
    /\ Len(striped) > 0
    /\ ~exists(f, striped)

\* check_manifest_for_game_data's not_found
NotFoundEntry(f, wl, striped) ==
    /\ Len(striped) > 0
    /\ ~exists(f, striped)
    /\ striped \notin wl

RECURSIVE not_found(_, _, _, _)
not_found(filt, f, wl, k) ==
    IF k > Len(filt) THEN <<>>
    ELSE (IF NotFoundEntry(f, wl, filt[k].striped) THEN <<filt[k].striped>> ELSE <<>>)
         \o not_found(filt, f, wl, k + 1)

\* faulty variant of AfterCheck: the check's error is dropped
AfterCheck_IgnoreError(missing) == "backup_read"

\* where main goes with the check's result (the `?` of line 44)
AfterCheck(missing) == IF missing # <<>> THEN "idle" ELSE "backup_read"

\* the futures of backup_alien_isolation_data's join_all
BackupTasks(filt) ==
    [k \in 1..Len(filt) |->
        [step |-> "metadata", tag |-> "pending", path |-> filt[k].striped,
         is_file |-> FALSE, bytes |-> "empty"]]

check_manifest_for_game_data ==
    /\ pc = "check"
    /\ LET missing == not_found(filtered, fs, white_list, 1)
       IN  IF AfterCheck(missing) = "idle"
           THEN /\ Return("zh", Err("File missing", missing, <<>>))
                /\ UNCHANGED <<data_buffer>>
           ELSE /\ pc' = "backup_read"
                /\ tasks' = BackupTasks(filtered)
                /\ order' = <<>>
                /\ data_buffer' = <<>>
                /\ UNCHANGED <<result, log>>
    /\ UNCHANGED <<archive, white_list, fs, backup_zip, manifest, needs_remove, filtered,
                   copied, orig, fs0, zip0, fsb, faults>>

\* lines 119-122: a metadata error is answered Ok(None) instead of Err
SkipsEntry(f, wl, striped) == metadata_not_found(f, striped) /\ striped \in wl

\* one future of the backup batch: tokio::fs::metadata
BackupMetadata(i) ==
    /\ pc = "backup_read"
    /\ tasks[i].step = "metadata"
    /\ LET t == tasks[i]
           done == [t EXCEPT !.step = "done"]
       IN  /\ tasks' = [tasks EXCEPT ![i] =
                IF ~exists(fs, t.path)
                THEN IF SkipsEntry(fs, white_list, t.path)
                     THEN [done EXCEPT !.tag = "none"]
                     ELSE [done EXCEPT !.tag = "err"]
                ELSE IF is_file(fs, t.path)
                     THEN [t EXCEPT !.step = "read"]
                     ELSE [done EXCEPT !.tag = "dir"]]
           /\ order' = IF tasks'[i].step = "done" THEN Append(order, i) ELSE order
    /\ UNCHANGED <<archive, white_list, fs, backup_zip, pc, manifest, needs_remove,
                   filtered, data_buffer, copied, result, log, orig, fs0, zip0, fsb, faults>>

\* one future of the backup batch: tokio::fs::read
BackupRead(i) ==
    /\ pc = "backup_read"
    /\ tasks[i].step = "read"
    /\ tasks' = [tasks EXCEPT ![i] =
            IF is_file(fs, tasks[i].path)
            THEN [@ EXCEPT !.step = "done", !.tag = "file", !.bytes = fs[tasks[i].path]]
            ELSE [@ EXCEPT !.step = "done", !.tag = "err"]]
    /\ order' = Append(order, i)
    /\ UNCHANGED <<archive, white_list, fs, backup_zip, pc, manifest, needs_remove,
                   filtered, data_buffer, copied, result, log, orig, fs0, zip0, fsb, faults>>

\* buffer_map: the Some(..) outputs collected into a HashMap keyed by stripped path
\* (a later pair replaces an earlier one with the same key); 0 when the key is absent
RECURSIVE buffer_map_get(_, _, _)
buffer_map_get(ts, striped, k) ==
    IF k = 0 THEN 0
    ELSE IF ts[k].path = striped /\ ts[k].tag \in {"file", "dir"} THEN k
    ELSE buffer_map_get(ts, striped, k - 1)

\* faulty variant of ArchiveOrder: the loop follows the order of completion
ArchiveOrder_Completion(filt, ord) == ord

\* faulty variant of ArchiveOrder: the loop runs backwards
ArchiveOrder_Reversed(filt, ord) == [k \in 1..Len(filt) |-> Len(filt) + 1 - k]

\* the order in which the archive loop visits the entries: filtered.iter()
ArchiveOrder(filt, ord) == [k \in 1..Len(filt) |-> k]

\* the loop of lines 147-171: one record per entry found in buffer_map
RECURSIVE ArchiveRecords(_, _, _, _)
ArchiveRecords(filt, ts, visit, n) ==
    IF n > Len(visit) THEN <<>>
    ELSE LET striped == filt[visit[n]].striped
             k == buffer_map_get(ts, striped, Len(ts))
         IN  (IF k = 0 THEN <<>>
              ELSE IF ts[k].tag = "dir" THEN << Rec(striped, "dir", "empty") >>
              ELSE << Rec(striped, "file", ts[k].bytes) >>)
             \o ArchiveRecords(filt, ts, visit, n + 1)

\* after join_all: the first read error returns; otherwise the archive is
\* assembled in data_buffer and finished
BackupAssemble ==
    /\ pc = "backup_read"
    /\ AllDone
    /\ LET e == FirstErr(tasks, 1)
       IN  IF e # 0
           THEN /\ Return("zh", Err("io", <<tasks[e].path>>, <<>>))
                /\ UNCHANGED <<data_buffer>>
           ELSE /\ data_buffer' =
                       ArchiveRecords(filtered, tasks, ArchiveOrder(filtered, order), 1)
                /\ pc' = "backup_create"
                /\ UNCHANGED <<tasks, order, result, log>>
    /\ UNCHANGED <<archive, white_list, fs, backup_zip, manifest, needs_remove, filtered,
                   copied, orig, fs0, zip0, fsb, faults>>

\* tokio::fs::File::create(backup_zip): the file exists and is empty
BackupCreate ==
    /\ pc = "backup_create"
    /\ backup_zip' = [present |-> TRUE, data |-> <<>>, complete |-> FALSE]
    /\ copied' = 0
    /\ pc' = "backup_copy"
    /\ fsb' = fs0
    /\ UNCHANGED <<archive, white_list, fs, manifest, needs_remove, filtered, tasks,
                   order, data_buffer, result, log, orig, fs0, zip0, faults>>

\* the futures of a write_file batch, one per (item, path)
WriteTask(item, path) ==
    [step |-> "try_exists", tag |-> "pending", path |-> path,
     is_file |-> item.is_file, bytes |-> item.bytes]

ChineseTasks(m, filt) ==
    [k \in 1..Len(filt) |-> WriteTask(m[filt[k].item], filt[k].striped)]

\* tokio::io::copy: one chunk of data_buffer per write, the central directory last
BackupCopy ==
    /\ pc = "backup_copy"
    /\ IF copied < Len(data_buffer)
       THEN /\ backup_zip' = [backup_zip EXCEPT !.data = Append(@, data_buffer[copied + 1])]
            /\ copied' = copied + 1
            /\ UNCHANGED <<pc, tasks>>
       ELSE /\ backup_zip' = [backup_zip EXCEPT !.complete = TRUE]
            /\ pc' = "chinese"
            /\ tasks' = ChineseTasks(manifest, filtered)
            /\ UNCHANGED copied
    /\ UNCHANGED <<archive, white_list, fs, manifest, needs_remove, filtered,
                   order, data_buffer, result, log, orig, fs0, zip0, fsb, faults>>

\* -------------------------------------------------------------- write_file
\* the path write_file tests and creates: the parent for a file item, the
\* path itself otherwise
DirTarget(t) == IF t.is_file THEN parent(t.path) ELSE t.path

\* whether write_file calls create_dir_all on the path it tested (lines 247, 257)
CallsCreateDirAll(f, target) == exists(f, target)

\* tokio::fs::try_exists
WriteTryExists(i) ==
    /\ pc \in {"chinese", "rewrite"}
    /\ tasks[i].step = "try_exists"
    /\ tasks' = [tasks EXCEPT ![i] =
            IF CallsCreateDirAll(fs, DirTarget(@)) THEN [@ EXCEPT !.step = "create_dir_all"]
            ELSE IF @.is_file THEN [@ EXCEPT !.step = "open"]
            ELSE [@ EXCEPT !.step = "done", !.tag = "ok"]]
    /\ UNCHANGED <<archive, white_list, fs, backup_zip, pc, manifest, needs_remove,
                   filtered, order, data_buffer, copied, result, log, orig, fs0, zip0, fsb, faults>>

\* tokio::fs::create_dir_all
WriteCreateDirAll(i) ==
    /\ pc \in {"chinese", "rewrite"}
    /\ tasks[i].step = "create_dir_all"
    /\ LET r == create_dir_all(fs, DirTarget(tasks[i]))
       IN  /\ fs' = r.fs
           /\ tasks' = [tasks EXCEPT ![i] =
                IF ~r.ok THEN [@ EXCEPT !.step = "done", !.tag = "err"]
                ELSE IF @.is_file THEN [@ EXCEPT !.step = "open"]
                ELSE [@ EXCEPT !.step = "done", !.tag = "ok"]]
    /\ UNCHANGED <<archive, white_list, backup_zip, pc, manifest, needs_remove,
                   filtered, order, data_buffer, copied, result, log, orig, fs0, zip0, fsb, faults>>

\* OpenOptions ... open(path)
WriteOpen(i) ==
    /\ pc \in {"chinese", "rewrite"}
    /\ tasks[i].step = "open"
    /\ LET r == open_truncate(fs, tasks[i].path)
       IN  /\ fs' = r.fs
           /\ tasks' = [tasks EXCEPT ![i] =
                IF r.ok THEN [@ EXCEPT !.step = "write_all"]
                ELSE [@ EXCEPT !.step = "done", !.tag = "err"]]
    /\ UNCHANGED <<archive, white_list, backup_zip, pc, manifest, needs_remove,
                   filtered, order, data_buffer, copied, result, log, orig, fs0, zip0, fsb, faults>>

\* file.write_all(&item.bytes)
WriteAll(i) ==
    /\ pc \in {"chinese", "rewrite"}
    /\ tasks[i].step = "write_all"
    /\ fs' = IF is_file(fs, tasks[i].path)
             THEN [fs EXCEPT ![tasks[i].path] = tasks[i].bytes]
             ELSE fs
    /\ tasks' = [tasks EXCEPT ![i] = [@ EXCEPT !.step = "done", !.tag = "ok"]]
    /\ UNCHANGED <<archive, white_list, backup_zip, pc, manifest, needs_remove,
                   filtered, order, data_buffer, copied, result, log, orig, fs0, zip0, fsb, faults>>

\* chinese after its join_all: the first error in input order, or Ok
ChineseCollect ==
    /\ pc = "chinese"
    /\ AllDone
    /\ LET e == FirstErr(tasks, 1)
       IN  IF e # 0 THEN Return("zh", Err("io", <<tasks[e].path>>, <<>>))
           ELSE Return("zh", Ok)
    /\ UNCHANGED <<archive, white_list, fs, backup_zip, manifest, needs_remove, filtered,
                   data_buffer, copied, orig, fs0, zip0, fsb, faults>>

\* ----------------------------------------------------------------- english
\* faulty variant of english_args: the two manifests change places
english_args_Swapped(language_zip, backup) ==
    [manifest |-> language_zip, needs_remove |-> backup]

\* main, lines 49-51: which manifest english() gets in which parameter
english_args(language_zip, backup) ==
    [manifest |-> backup, needs_remove |-> language_zip]

\* `en`: main loads the embedded manifest, then Manifest::read_from_backup_zip
Main_en ==
    /\ pc = "idle"
    /\ Len(log) < MaxRuns
    /\ fs0' = fs
    /\ zip0' = backup_zip
    /\ IF ~backup_zip.present
       THEN /\ Return("en", Err("io", <<>>, <<>>))
            /\ manifest' = Manifest_new(archive)
            /\ UNCHANGED needs_remove
       ELSE IF ~backup_zip.complete
       THEN /\ Return("en", Err("zip", <<>>, <<>>))
            /\ manifest' = Manifest_new(archive)
            /\ UNCHANGED needs_remove
       ELSE LET args == english_args(Manifest_new(archive), Manifest_new(backup_zip.data))
            IN  /\ manifest' = args.manifest
                /\ needs_remove' = args.needs_remove
                /\ pc' = "english"
                /\ result' = NoResult
                /\ UNCHANGED <<tasks, order, log>>
    /\ UNCHANGED <<archive, white_list, fs, backup_zip, filtered, data_buffer, copied, orig, fsb, faults>>

\* faulty variant of dir_len: every item is counted
dir_len_All(items) == Len(items)

dir_len(items) == Cardinality({i \in 1..Len(items) : items[i].is_dir})

\* faulty variant of RemoveTasks: one future per entry of the view, of any kind
RemoveTasks_All(m, filt, k) ==
    [j \in 1..(Len(filt) - k + 1) |->
        [step |-> "metadata", tag |-> "pending", path |-> filt[j + k - 1].striped,
         is_file |-> TRUE, bytes |-> "empty"]]

\* the futures of english's first join_all: one per file entry of the view
RECURSIVE RemoveTasks(_, _, _)
RemoveTasks(m, filt, k) ==
    IF k > Len(filt) THEN <<>>
    ELSE (IF m[filt[k].item].is_file
          THEN << [step |-> "metadata", tag |-> "pending", path |-> filt[k].striped,
                   is_file |-> TRUE, bytes |-> "empty"] >>
          ELSE <<>>)
         \o RemoveTasks(m, filt, k + 1)

\* english, lines 202-211: the directory counts
english ==
    /\ pc = "english"
    /\ LET filt == filter_hans_dir(needs_remove)
           needs_remove_dir_len ==
               dir_len([k \in 1..Len(filt) |-> needs_remove[filt[k].item]])
           manifest_dir_len == dir_len(manifest)
       IN  /\ filtered' = filt
           /\ IF needs_remove_dir_len # manifest_dir_len
              THEN Return("en", Err("dir len", <<>>,
                                    <<needs_remove_dir_len, manifest_dir_len>>))
              ELSE /\ pc' = "remove"
                   /\ tasks' = RemoveTasks(needs_remove, filt, 1)
                   /\ UNCHANGED <<order, result, log>>
    /\ UNCHANGED <<archive, white_list, fs, backup_zip, manifest, needs_remove,
                   data_buffer, copied, orig, fs0, zip0, fsb, faults>>

\* one removal future: tokio::fs::metadata
RemoveMetadata(i) ==
    /\ pc = "remove"
    /\ tasks[i].step = "metadata"
    /\ tasks' = [tasks EXCEPT ![i] =
            IF is_file(fs, @.path) THEN [@ EXCEPT !.step = "remove_file"]
            ELSE [@ EXCEPT !.step = "done", !.tag = "ok"]]
    /\ UNCHANGED <<archive, white_list, fs, backup_zip, pc, manifest, needs_remove,
                   filtered, order, data_buffer, copied, result, log, orig, fs0, zip0, fsb, faults>>

\* one removal future: tokio::fs::remove_file
RemoveFile(i) ==
    /\ pc = "remove"
    /\ tasks[i].step = "remove_file"
    /\ IF is_file(fs, tasks[i].path)
       THEN /\ fs' = [fs EXCEPT ![tasks[i].path] = "absent"]
            /\ tasks' = [tasks EXCEPT ![i] = [@ EXCEPT !.step = "done", !.tag = "ok"]]
       ELSE /\ fs' = fs
            /\ tasks' = [tasks EXCEPT ![i] = [@ EXCEPT !.step = "done", !.tag = "err"]]
    /\ UNCHANGED <<archive, white_list, backup_zip, pc, manifest, needs_remove,
                   filtered, order, data_buffer, copied, result, log, orig, fs0, zip0, fsb, faults>>

RewriteTasks(m) == [k \in 1..Len(m) |-> WriteTask(m[k], m[k].lowercase_name)]

\* faulty variant of RemoveFailed: the removal results are dropped
RemoveFailed_Never(e) == FALSE

\* line 228: `?` on the collected removal results returns the first Err
RemoveFailed(e) == e # 0

\* english after its first join_all: an error returns, otherwise the rewrite starts
RemoveCollect ==
    /\ pc = "remove"
    /\ AllDone
    /\ LET e == FirstErr(tasks, 1)
       IN  IF RemoveFailed(e) THEN Return("en", Err("io", <<tasks[e].path>>, <<>>))
           ELSE /\ pc' = "rewrite"
                /\ tasks' = RewriteTasks(manifest)
                /\ UNCHANGED <<order, result, log>>
    /\ UNCHANGED <<archive, white_list, fs, backup_zip, manifest, needs_remove, filtered,
                   data_buffer, copied, orig, fs0, zip0, fsb, faults>>

\* english after its second join_all
RewriteCollect ==
    /\ pc = "rewrite"
    /\ AllDone
    /\ LET e == FirstErr(tasks, 1)
       IN  IF e # 0 THEN Return("en", Err("io", <<tasks[e].path>>, <<>>))
           ELSE Return("en", Ok)
    /\ UNCHANGED <<archive, white_list, fs, backup_zip, manifest, needs_remove, filtered,
                   data_buffer, copied, orig, fs0, zip0, fsb, faults>>

\* the process is killed (or the machine stops) in the middle of a run: the disk
\* stays as it is at that point
Crash ==
    /\ pc # "idle"
    /\ Cardinality({n \in 1..Len(log) : log[n][2] = "crash"}) < MaxCrashes
    /\ pc \notin {"load", "loaded", "filtered"}
    /\ Return(IF pc \in {"english", "remove", "rewrite"} THEN "en" ELSE "zh",
              [status |-> "crash", kind |-> "none", paths |-> <<>>, counts |-> <<>>])
    /\ UNCHANGED <<archive, white_list, fs, backup_zip, manifest, needs_remove, filtered,
                   data_buffer, copied, orig, fs0, zip0, fsb, faults>>

\* ------------------------------------------------- the manifest functions
\* records an archive can hold: names inside and outside the subtree, in either
\* case; files, directories and symlinks; unsafe names; unreadable bytes
RecordNames ==
    { <<"language", "zh_cn_hans">>,
      <<"language", "zh_cn_hans", "ui">>,
      <<"Language", "ZH_CN_HANS", "UI", "Menu.bin">>,
      <<"language", "zh_cn_hansx", "a">>,
      <<"language", "ui.bin">> }

RecordUniverse ==
    { [name |-> n, kind |-> k.kind, enclosed |-> e, readable |-> k.readable,
       bytes |-> IF k.kind = "file" THEN "b" ELSE "empty"] :
        n \in RecordNames,
        k \in { [kind |-> "file", readable |-> TRUE], [kind |-> "file", readable |-> FALSE],
                [kind |-> "dir", readable |-> TRUE], [kind |-> "symlink", readable |-> TRUE] },
        e \in BOOLEAN }

InitManifest ==
    /\ archive \in UNION { [1..n -> RecordUniverse] : n \in 0..MaxRecords }
    /\ white_list = {}
    /\ fs = TreeOf([p \in FsPaths |-> IF p = <<>> THEN "dir" ELSE "absent"])
    /\ backup_zip = NoFile
    /\ pc = "load"
    /\ manifest = <<>>
    /\ needs_remove = <<>>
    /\ filtered = <<>>
    /\ tasks = <<>>
    /\ order = <<>>
    /\ data_buffer = <<>>
    /\ copied = 0
    /\ result = NoResult
    /\ log = <<>>
    /\ orig = fs
    /\ fs0 = fs
    /\ zip0 = backup_zip
    /\ fsb = fs
    /\ faults = 0

\* Manifest::read_from_language_zip
read_from_language_zip ==
    /\ pc = "load"
    /\ manifest' = Manifest_new(archive)
    /\ pc' = "loaded"
    /\ UNCHANGED <<archive, white_list, fs, backup_zip, needs_remove, filtered, tasks,
                   order, data_buffer, copied, result, log, orig, fs0, zip0, fsb, faults>>

\* manifest.filter_hans_dir()
call_filter_hans_dir ==
    /\ pc = "loaded"
    /\ filtered' = filter_hans_dir(manifest)
    /\ pc' = "filtered"
    /\ UNCHANGED <<archive, white_list, fs, backup_zip, manifest, needs_remove, tasks,
                   order, data_buffer, copied, result, log, orig, fs0, zip0, fsb, faults>>

NextManifest == read_from_language_zip \/ call_filter_hans_dir

SpecManifest == InitManifest /\ [][NextManifest]_vars

\* ----------------------------------------------------------- specification
Next ==
    \/ Main_zh
    \/ check_manifest_for_game_data
    \/ \E i \in 1..Len(tasks) : BackupMetadata(i)
    \/ \E i \in 1..Len(tasks) : BackupRead(i)
    \/ BackupAssemble
    \/ BackupCreate
    \/ BackupCopy
    \/ \E i \in 1..Len(tasks) : WriteTryExists(i)
    \/ \E i \in 1..Len(tasks) : WriteCreateDirAll(i)
    \/ \E i \in 1..Len(tasks) : WriteOpen(i)
    \/ \E i \in 1..Len(tasks) : WriteAll(i)
    \/ ChineseCollect
    \/ Main_en
    \/ english
    \/ \E i \in 1..Len(tasks) : RemoveMetadata(i)
    \/ \E i \in 1..Len(tasks) : RemoveFile(i)
    \/ RemoveCollect
    \/ RewriteCollect

Spec == Init /\ [][Next]_vars

\* the same program, where a run may also be cut short
NextCrash == Next \/ Crash

SpecCrash == Init /\ [][NextCrash]_vars

\* ------------------------------------------------ environment failures
\* tokio::fs::read returns an error (the file cannot be read)
BackupReadFails(i) ==
    /\ pc = "backup_read"
    /\ tasks[i].step = "read"
    /\ faults < MaxFaults
    /\ tasks' = [tasks EXCEPT ![i] = [@ EXCEPT !.step = "done", !.tag = "err"]]
    /\ order' = Append(order, i)
    /\ faults' = faults + 1
    /\ UNCHANGED <<archive, white_list, fs, backup_zip, pc, manifest, needs_remove,
                   filtered, data_buffer, copied, result, log, orig, fs0, zip0, fsb>>

\* tokio::fs::remove_file returns an error (the file cannot be removed)
RemoveFileFails(i) ==
    /\ pc = "remove"
    /\ tasks[i].step = "remove_file"
    /\ faults < MaxFaults
    /\ tasks' = [tasks EXCEPT ![i] = [@ EXCEPT !.step = "done", !.tag = "err"]]
    /\ faults' = faults + 1
    /\ UNCHANGED <<archive, white_list, fs, backup_zip, pc, manifest, needs_remove,
                   filtered, order, data_buffer, copied, result, log, orig, fs0, zip0, fsb>>

\* the same program in an environment where these failures happen
NextFaults ==
    \/ Next
    \/ \E i \in 1..Len(tasks) : BackupReadFails(i)
    \/ \E i \in 1..Len(tasks) : RemoveFileFails(i)

SpecFaults == Init /\ [][NextFaults]_vars

\* ------------------------------------------------------------------ claims
Range(q) == {q[k] : k \in 1..Len(q)}
ZhPcs == {"check", "backup_read", "backup_create", "backup_copy", "chinese"}
EnPcs == {"english", "remove", "rewrite"}
LastRun == log[Len(log)]
AfterZh == pc = "idle" /\ log # <<>> /\ LastRun[1] = "zh"

\* the stripped paths of the language subtree of the embedded archive
SubtreePaths == {e.striped : e \in Range(filter_hans_dir(Manifest_new(archive)))}

\* the paths of the current view that tree f lacks and the whitelist does not excuse
Missing(f) ==
    {p \in {e.striped : e \in Range(filtered)} :
        Len(p) > 0 /\ Node(f, p) = "absent" /\ p \notin white_list}

\* C1: when the overlay flow succeeded on the original tree and the restore flow
\* runs next, the restore succeeds and every path of the language subtree is as
\* it was in the original tree (existence, kind, content).
C1_RoundTrip ==
    (pc = "idle" /\ Len(log) = 2 /\ log[1] = <<"zh", "ok">> /\ log[2][1] = "en")
        => /\ log[2][2] = "ok"
           /\ \A p \in SubtreePaths : Node(fs, p) = Node(orig, p)

\* C2: in the overlay flow the tree and the backup archive change only after the
\* integrity check has passed; a run on a tree with missing baseline files ends
\* with the check's error and leaves the tree and the backup archive unchanged.
C2_Gate ==
    /\ [][ (pc \in ZhPcs /\ (fs' # fs \/ backup_zip' # backup_zip))
               => (pc # "check" /\ Missing(fs0) = {}) ]_vars
    /\ []( (AfterZh /\ Missing(fs0) # {})
               => (result.kind = "File missing" /\ fs = fs0 /\ backup_zip = zip0) )

\* C2 witness: a run the check stopped, on a tree that holds part of the subtree
C2_Witness ==
    AfterZh /\ result.kind = "File missing" /\ \E p \in SubtreePaths : exists(fs, p)

\* C3: the integrity check fails iff some path of the view is absent and not
\* whitelisted; its error names exactly those paths, all of them.
C3_CheckVerdict ==
    /\ (AfterZh /\ result.kind = "File missing")
           => (Missing(fs0) # {} /\ Range(result.paths) = Missing(fs0))
    /\ ((pc \in ZhPcs \ {"check"})
           \/ (AfterZh /\ result.kind # "File missing"))
           => Missing(fs0) = {}

\* C3 witness: a failed check that names two paths while others are present
C3_Witness ==
    /\ AfterZh /\ result.kind = "File missing"
    /\ Cardinality(Range(result.paths)) = 2
    /\ \E p \in SubtreePaths : exists(fs0, p)

\* the directory entries of the needs_remove view, the directory items of manifest
ViewDirs == {k \in 1..Len(filter_hans_dir(needs_remove)) :
                needs_remove[filter_hans_dir(needs_remove)[k].item].is_dir}
ManifestDirs == {i \in 1..Len(manifest) : manifest[i].is_dir}

\* C4: english returns the directory-count error, with both counts, exactly when
\* the directory entries of the needs_remove view and the directory items of the
\* manifest differ in number, and then the tree is as it was when the run began.
C4_DirCount ==
    /\ (pc = "idle" /\ result.kind = "dir len")
           => /\ Cardinality(ViewDirs) # Cardinality(ManifestDirs)
              /\ result.counts = <<Cardinality(ViewDirs), Cardinality(ManifestDirs)>>
              /\ fs = fs0
    /\ (pc \in {"remove", "rewrite"}) => Cardinality(ViewDirs) = Cardinality(ManifestDirs)

\* C4 witness: a restore refused for its counts while overlay files are in place
C4_Witness == pc = "idle" /\ result.kind = "dir len" /\ \E p \in SubtreePaths : is_file(fs, p)

\* C5: the backup archive file is at every point absent or complete (its
\* previous content or the new archive), never empty or a truncated prefix.
C5_AtomicArchive == backup_zip.present => backup_zip.complete

\* the record of entry e by the kind of the manifest item
EntryRecord(f, e) ==
    IF ~exists(f, e.striped) THEN <<>>
    ELSE IF manifest[e.item].is_dir THEN << Rec(e.striped, "dir", "empty") >>
    ELSE << Rec(e.striped, "file", Node(f, e.striped)) >>

\* the record of entry e by the kind its path has on disk
DiskRecord(f, e) ==
    IF ~exists(f, e.striped) THEN <<>>
    ELSE IF is_file(f, e.striped) THEN << Rec(e.striped, "file", Node(f, e.striped)) >>
    ELSE << Rec(e.striped, "dir", "empty") >>

\* C6 as stated: after a successful backup the archive holds, in view order,
\* one record per view entry present on disk, a directory record for a directory
\* entry and a file record with the on-disk bytes for a file entry.
C6_ArchiveByEntryKind ==
    pc = "chinese" =>
        backup_zip.data = Flatten([k \in 1..Len(filtered) |-> EntryRecord(fs0, filtered[k])])

\* C6 amended: after a successful backup the archive is complete and holds, in
\* view order, one record per view entry present on disk, of the kind the path
\* has on disk: a file record with the on-disk bytes, or a directory record.
C6_ArchiveByDiskKind ==
    pc = "chinese" =>
        /\ backup_zip.complete
        /\ backup_zip.data = Flatten([k \in 1..Len(filtered) |-> DiskRecord(fs0, filtered[k])])

\* C6 witness: a backup with a file record, a directory record and a skipped entry
C6_Witness ==
    /\ pc = "chinese"
    /\ \E r \in Range(backup_zip.data) : r.kind = "file"
    /\ \E r \in Range(backup_zip.data) : r.kind = "dir"
    /\ \E e \in Range(filtered) : ~exists(fs0, e.striped)

\* item i lies strictly below the subtree root
InSubtree(i) ==
    /\ Len(manifest[i].lowercase_name) > Len(hans_dir)
    /\ \A j \in 1..Len(hans_dir) : manifest[i].lowercase_name[j] = hans_dir[j]

\* C7: filter_hans_dir returns, in manifest order, exactly the items whose
\* lowercase_name is the subtree root followed by a non-empty remainder, each
\* paired with that remainder; the root itself and items outside never appear.
C7_FilterExact ==
    pc = "filtered" =>
        /\ {e.item : e \in Range(filtered)} = {i \in 1..Len(manifest) : InSubtree(i)}
        /\ \A k \in 1..Len(filtered) : \A l \in 1..Len(filtered) :
               k < l => filtered[k].item < filtered[l].item
        /\ \A e \in Range(filtered) :
               /\ e.striped # <<>>
               /\ hans_dir \o e.striped = manifest[e.item].lowercase_name

\* C7 witness: the root entry is in the manifest and left out, and the one entry
\* kept is matched through its lowercased name
C7_Witness ==
    /\ pc = "filtered"
    /\ Len(filtered) = 1
    /\ \E i \in 1..Len(manifest) : manifest[i].lowercase_name = hans_dir
    /\ manifest[filtered[1].item].path # manifest[filtered[1].item].lowercase_name

\* C8: a backup over the tree and view of the previous backup assembles the same
\* archive (same records, same bytes, same order), whatever order the reads
\* completed in.
C8_BackupDeterministic ==
    (pc = "backup_create" /\ zip0.present /\ zip0.complete /\ fsb = fs0)
        => data_buffer = zip0.data

\* C8 witness: a second backup over the same tree whose reads completed out of order
C8_Witness ==
    /\ pc = "backup_create" /\ zip0.present /\ zip0.complete /\ fsb = fs0
    /\ Len(data_buffer) >= 2
    /\ order[1] # 1

\* C9 as stated: in the restore flow the manifest of the backup archive is
\* needs_remove and the manifest of the embedded archive is the one rewritten.
C9_BackupIsNeedsRemove ==
    pc \in EnPcs =>
        /\ needs_remove = Manifest_new(backup_zip.data)
        /\ manifest = Manifest_new(archive)

\* C9 amended: the manifest of the embedded archive is needs_remove (its view's
\* file entries are the ones deleted), and the items rewritten are all the items
\* of the manifest of the backup archive.
C9_EmbeddedIsNeedsRemove ==
    /\ pc \in EnPcs =>
          /\ needs_remove = Manifest_new(archive)
          /\ manifest = Manifest_new(backup_zip.data)
    /\ pc = "remove" =>
          {t.path : t \in Range(tasks)} =
              {e.striped : e \in {x \in Range(filter_hans_dir(Manifest_new(archive))) :
                                     Manifest_new(archive)[x.item].is_file}}
    /\ pc = "rewrite" =>
          /\ Len(tasks) = Len(backup_zip.data)
          /\ \A k \in 1..Len(tasks) :
                /\ tasks[k].path = to_lowercase(backup_zip.data[k].name)
                /\ tasks[k].is_file = (backup_zip.data[k].kind = "file")
                /\ tasks[k].bytes = backup_zip.data[k].bytes

\* C9 witness: a restore over an applied overlay has rewritten a file of the backup
C9_Witness ==
    /\ pc = "rewrite"
    /\ \E t \in Range(tasks) : t.is_file /\ t.step = "done" /\ fs[t.path] = t.bytes
    /\ \E p \in SubtreePaths : is_file(fs0, p) /\ fs0[p] # orig[p]

\* C10: every item of a built manifest has exactly one of is_file and is_dir.
C10_OneKind ==
    \A i \in 1..Len(manifest) : manifest[i].is_file # manifest[i].is_dir

WriteSteps == {"try_exists", "create_dir_all", "open", "write_all"}

\* C11: in a restore the rewrite batch starts only when every removal task has
\* completed, and it never starts in a run where a removal task returned an error
C11_BatchBarrier ==
    [][/\ (pc = "remove" /\ pc' = "rewrite") =>
            \A i \in 1..Len(tasks) : tasks[i].step = "done" /\ tasks[i].tag = "ok"
       /\ (pc = "remove" /\ \E i \in 1..Len(tasks) : tasks[i].tag = "err") =>
            pc' \in {"remove", "idle"}
       /\ (pc' = "remove") =>
            \A i \in 1..Len(tasks') : tasks'[i].step \notin WriteSteps]_vars

\* a removal batch that is complete, with one failed task and one file deleted
C11_Witness ==
    /\ pc = "remove"
    /\ \A i \in 1..Len(tasks) : tasks[i].step = "done"
    /\ \E i \in 1..Len(tasks) : tasks[i].tag = "err"
    /\ \E i \in 1..Len(tasks) :
           tasks[i].tag = "ok" /\ is_file(fs0, tasks[i].path) /\ ~exists(fs, tasks[i].path)

\* C12: the overlay batch returns only when every task has run to completion; its
\* error is the one of the first failing entry in the order of the filtered view;
\* what the other entries wrote stays on disk
C12_FirstErrorWins ==
    [][(pc = "chinese" /\ pc' = "idle") =>
         /\ \A i \in 1..Len(tasks) : tasks[i].step = "done"
         /\ Len(tasks) = Len(filtered)
         /\ \A i \in 1..Len(tasks) : tasks[i].path = filtered[i].striped
         /\ (result'.status = "err") = (\E i \in 1..Len(tasks) : tasks[i].tag = "err")
         /\ \A e \in 1..Len(tasks) :
               (tasks[e].tag = "err" /\ \A j \in 1..(e - 1) : tasks[j].tag # "err")
                 => result'.paths = <<tasks[e].path>>
         /\ fs' = fs
         /\ \A i \in 1..Len(tasks) :
               (tasks[i].is_file /\ tasks[i].tag = "ok")
                 => fs'[tasks[i].path] = tasks[i].bytes]_vars

\* a complete overlay batch in which two entries failed and a third wrote its file
C12_Witness ==
    /\ pc = "chinese"
    /\ \A i \in 1..Len(tasks) : tasks[i].step = "done"
    /\ \E i, j \in 1..Len(tasks) : i < j /\ tasks[i].tag = "err" /\ tasks[j].tag = "err"
    /\ \E i \in 1..Len(tasks) :
           /\ tasks[i].is_file /\ tasks[i].tag = "ok"
           /\ fs0[tasks[i].path] # tasks[i].bytes
           /\ fs[tasks[i].path] = tasks[i].bytes

\* C13: when the backup read fails, the error names every entry that failed, not
\* only the first one
C13_AllFailuresReported ==
    [][(pc = "backup_read" /\ pc' = "idle" /\ result'.status = "err") =>
         Range(result'.paths) =
           {tasks[i].path : i \in {k \in 1..Len(tasks) : tasks[k].tag = "err"}}]_vars

\* C14: in the backup read an absent entry is skipped without error exactly when
\* its stripped path is whitelisted, and is an error otherwise; when the backup
\* fails, the archive file and the tree are as they were when the run started
C14_AbsentSkippedIffWhitelisted ==
    [][/\ (pc = "backup_read" /\ pc' = "backup_read") =>
            \A i \in 1..Len(tasks) :
               (tasks[i].step = "metadata" /\ tasks'[i].step = "done"
                    /\ ~exists(fs, tasks[i].path))
                 => /\ (tasks'[i].tag = "none") = (tasks[i].path \in white_list)
                    /\ (tasks'[i].tag = "err") = (tasks[i].path \notin white_list)
       /\ (pc = "backup_read" /\ pc' = "idle" /\ result'.status = "err") =>
            (backup_zip' = zip0 /\ fs' = fs0)]_vars

\* C15: after a successful write_file on a directory item the target exists as a
\* directory (it is created, with its missing parents, when it did not exist)
C15_DirItemCreated ==
    [][(pc \in {"chinese", "rewrite"} /\ pc' = pc) =>
         \A i \in 1..Len(tasks) :
            (~tasks[i].is_file /\ tasks[i].step # "done"
                 /\ tasks'[i].step = "done" /\ tasks'[i].tag = "ok")
              => is_dir(fs', tasks[i].path)]_vars

\* C16: write_file on a file item creates the missing parent directory when the
\* parent's own parent exists, then creates or truncates the target, which then
\* holds the item's bytes; so after a successful overlay every file entry's target
\* holds the item's bytes, whatever was there before
C16_FileItemWritten ==
    [][(pc = "chinese" /\ pc' = "idle") =>
         \A i \in 1..Len(tasks) :
            tasks[i].is_file =>
              /\ (~exists(fs0, parent(tasks[i].path))
                      /\ is_dir(fs0, parent(parent(tasks[i].path))))
                   => (tasks[i].tag = "ok" /\ is_dir(fs, parent(tasks[i].path))
                          /\ fs[tasks[i].path] = tasks[i].bytes)
              /\ (result'.status = "ok") => fs[tasks[i].path] = tasks[i].bytes]_vars

\* the stripped paths of the file entries of the needs-remove view
RemovePaths ==
    {filtered[k].striped :
        k \in {j \in 1..Len(filtered) : needs_remove[filtered[j].item].is_file}}

\* C17: the removal of a restore deletes the target of every file entry of the
\* needs-remove view that is a regular file; a target that does not exist or is a
\* directory causes no error and stays as it is; the paths of directory entries
\* and the paths outside the view are not deleted
C17_RemovalFrame ==
    [][/\ (pc = "remove" /\ pc' = "remove") =>
            \A p \in FsPaths :
               fs'[p] # fs[p] => (p \in RemovePaths /\ is_file(fs, p) /\ ~exists(fs', p))
       /\ (pc = "remove" /\ pc' # "remove") =>
            /\ \A i \in 1..Len(tasks) : tasks[i].step = "done" /\ tasks[i].tag = "ok"
            /\ fs' = fs
            /\ \A p \in FsPaths :
                  fs[p] = IF p \in RemovePaths /\ is_file(fs0, p) THEN "absent" ELSE fs0[p]
      ]_vars

\* a complete removal that deleted a file, left a file entry's target that is a
\* directory, and left a regular file at the path of a directory entry
C17_Witness ==
    /\ pc = "remove"
    /\ \A i \in 1..Len(tasks) : tasks[i].step = "done"
    /\ \E p \in RemovePaths : is_file(fs0, p) /\ ~exists(fs, p)
    /\ \E p \in RemovePaths : is_dir(fs0, p) /\ is_dir(fs, p)
    /\ \E k \in 1..Len(filtered) :
           ~needs_remove[filtered[k].item].is_file /\ is_file(fs, filtered[k].striped)

\* C18: the backup archive on disk always holds the content the tree had before
\* the first overlay: running the overlay again does not replace the originals
\* that were backed up
C18_BackupHoldsOriginal ==
    (backup_zip.present /\ backup_zip.complete) =>
        \A k \in 1..Len(backup_zip.data) :
           LET r == backup_zip.data[k]
           IN  /\ exists(orig, r.name)
               /\ r.kind = "file" => r.bytes = Node(orig, r.name)

\* the stripped paths of the current view
ViewPaths == {filtered[k].striped : k \in 1..Len(filtered)}

\* C19: a run of the overlay flow, whether it succeeds or fails, deletes nothing,
\* changes no path of the tree other than the targets of the view's entries,
\* changes nothing else besides the backup archive, and leaves the manifest's
\* items as they are
C19_OverlayFrame ==
    [][(pc \in ZhPcs) =>
        (/\ \A p \in FsPaths :
               /\ fs'[p] # fs[p] => p \in ViewPaths
               /\ is_file(fs, p) => is_file(fs', p)
               /\ is_dir(fs, p) => is_dir(fs', p)
         /\ manifest' = manifest
         /\ filtered' = filtered
         /\ archive' = archive
         /\ white_list' = white_list)]_vars

\* an overlay run that failed after it wrote a file, on a tree that holds a file
\* outside the view and a regular file where the view has a directory
C19_Witness ==
    /\ AfterZh
    /\ result.status = "err"
    /\ \E p \in ViewPaths : fs[p] # fs0[p]
    /\ \E p \in FsPaths \ ViewPaths : is_file(fs, p)
    /\ \E k \in 1..Len(filtered) :
           manifest[filtered[k].item].is_dir /\ is_file(fs, filtered[k].striped)

====
